---- MODULE Spec2Model ----
(***************************************************************************)
(* A model of the counting_ratio crate (src/src/lib.rs): the CountingRatio *)
(* value type with its observation methods, arithmetic operators and       *)
(* hand-written PartialOrd, and the BayesianCounter built on top of it.    *)
(*                                                                         *)
(* Four state machines share the variables below:                          *)
(*   SpecRatio  a few CountingRatio values driven by observe,              *)
(*              observe_with_prior, += and +;                              *)
(*   SpecCmp    partial_cmp applied to every pair of three ratios drawn    *)
(*              from a bounded set;                                        *)
(*   SpecBayes  a BayesianCounter driven by observe and the probability    *)
(*              queries;                                                   *)
(*   SpecRank   a BayesianCounter driven by observe and label_ranking_for. *)
(* All counters stay far below 2^64 within the bounds, so u64 arithmetic   *)
(* is modelled by the integers.                                            *)
(***************************************************************************)
EXTENDS Integers, Sequences, FiniteSets

VARIABLES
    obs,        \* SpecRatio: the CountingRatio values under observation
    effective,  \* SpecRatio: history, observations counted into each value
    met,        \* SpecRatio: history, counted observations whose condition held
    operands,   \* SpecCmp: the three ratios being compared
    bayesian,   \* SpecBayes/SpecRank: the BayesianCounter {counts, total}
    call,       \* the last operation called and its arguments
    ret         \* the value the last operation returned

vars == <<obs, effective, met, operands, bayesian, call, ret>>

\* ---------------------------------------------------------------- bounds
NumRatios == 2
MaxObservations == 3
MaxField == 3
NumLabels == 2
NumExamples == 2
MaxTotal == 4
NumRankLabels == 3
MaxRankTotal == 5

RatioIds == 1..NumRatios
Labels == 1..NumLabels
Examples == 1..NumExamples
RankLabels == 1..NumRankLabels
Slots == 1..3

NoRet == "none"

\* ---------------------------------------------------------- CountingRatio
CountingRatio_new == [matches |-> 0, observations |-> 0]

ratio(matches, observations) == [matches |-> matches, observations |-> observations]

observe(self, condition_met) ==
    LET counted == [self EXCEPT !.observations = self.observations + 1]
    IN  IF condition_met
        THEN [counted EXCEPT !.matches = counted.matches + 1]
        ELSE counted

observe_with_prior_always(self, prior_condition_met, posterior_condition_met) ==
    LET counted == [self EXCEPT !.observations = self.observations + 1]
    IN  IF posterior_condition_met
        THEN [counted EXCEPT !.matches = counted.matches + 1]
        ELSE counted

observe_with_prior(self, prior_condition_met, posterior_condition_met) ==
    IF prior_condition_met
    THEN LET counted == [self EXCEPT !.observations = self.observations + 1]
         IN  IF posterior_condition_met
             THEN [counted EXCEPT !.matches = counted.matches + 1]
             ELSE counted
    ELSE self

defined(self) == self.observations > 0

add_assign_swapped(self, rhs) ==
    [matches |-> self.matches + rhs.observations,
     observations |-> self.observations + rhs.observations]

add_assign(self, rhs) ==
    [matches |-> self.matches + rhs.matches,
     observations |-> self.observations + rhs.observations]

add(self, rhs) == add_assign(self, rhs)

mul_assign(self, rhs) ==
    [matches |-> self.matches * rhs.matches,
     observations |-> self.observations * rhs.observations]

mul(self, rhs) == mul_assign(self, rhs)

mul_assign_u64(self, rhs) == [self EXCEPT !.matches = self.matches * rhs]

mul_u64(self, rhs) == mul_assign_u64(self, rhs)

div_assign_straight(self, rhs) ==
    [matches |-> self.matches * rhs.matches,
     observations |-> self.observations * rhs.observations]

div_assign(self, rhs) ==
    [matches |-> self.matches * rhs.observations,
     observations |-> self.observations * rhs.matches]

div(self, rhs) == div_assign(self, rhs)

\* u64::partial_cmp; the Option is always Some and is left out.
u64_cmp(x, y) == IF x < y THEN "Less" ELSE IF x > y THEN "Greater" ELSE "Equal"

partial_cmp_by_matches(self, other) ==
    IF self.matches = 0 /\ other.matches = 0 THEN "Equal"
    ELSE IF self.matches = 0 THEN "Less"
    ELSE IF other.matches = 0 THEN "Greater"
    ELSE IF self.observations = other.observations
         THEN u64_cmp(self.matches, other.matches)
    ELSE u64_cmp(self.matches * other.observations, other.matches * self.observations)

partial_cmp_swapped(self, other) ==
    IF self.matches = 0 /\ other.matches = 0 THEN "Equal"
    ELSE IF self.matches = 0 THEN "Less"
    ELSE IF other.matches = 0 THEN "Greater"
    ELSE IF self.observations = other.observations
         THEN u64_cmp(self.observations, other.observations)
    ELSE u64_cmp(self.matches * self.observations, other.matches * other.observations)

partial_cmp(self, other) ==
    IF self.matches = 0 /\ other.matches = 0 THEN "Equal"
    ELSE IF self.matches = 0 THEN "Less"
    ELSE IF other.matches = 0 THEN "Greater"
    ELSE IF self.observations = other.observations
         THEN u64_cmp(self.observations, other.observations)
    ELSE u64_cmp(self.matches * other.observations, other.matches * self.observations)

\* PartialOrd::lt is not overridden: it is partial_cmp(..) == Some(Less).
lt(self, other) == partial_cmp(self, other) = "Less"

\* ------------------------------------------------- SpecRatio: operations
InitRatio ==
    /\ obs = [i \in RatioIds |-> CountingRatio_new]
    /\ effective = [i \in RatioIds |-> 0]
    /\ met = [i \in RatioIds |-> 0]
    /\ operands = <<>>
    /\ bayesian = NoRet
    /\ call = [op |-> "new", args |-> <<>>]
    /\ ret = NoRet

Observe(i, condition_met) ==
    /\ obs' = [obs EXCEPT ![i] = observe(obs[i], condition_met)]
    /\ effective' = [effective EXCEPT ![i] = effective[i] + 1]
    /\ met' = [met EXCEPT ![i] = met[i] + (IF condition_met THEN 1 ELSE 0)]
    /\ call' = [op |-> "observe", args |-> <<i, condition_met>>]
    /\ ret' = NoRet
    /\ UNCHANGED <<operands, bayesian>>

ObserveWithPrior(i, prior_condition_met, posterior_condition_met) ==
    /\ obs' = [obs EXCEPT ![i] =
                 observe_with_prior(obs[i], prior_condition_met, posterior_condition_met)]
    /\ effective' = [effective EXCEPT ![i] =
                 effective[i] + (IF prior_condition_met THEN 1 ELSE 0)]
    /\ met' = [met EXCEPT ![i] =
                 met[i] + (IF prior_condition_met /\ posterior_condition_met THEN 1 ELSE 0)]
    /\ call' = [op |-> "observe_with_prior",
                args |-> <<i, prior_condition_met, posterior_condition_met>>]
    /\ ret' = NoRet
    /\ UNCHANGED <<operands, bayesian>>

Defined(i) ==
    /\ call' = [op |-> "defined", args |-> <<i>>]
    /\ ret' = defined(obs[i])
    /\ UNCHANGED <<obs, effective, met, operands, bayesian>>

\* obs[i] += obs[j]
AddAssign(i, j) ==
    /\ obs' = [obs EXCEPT ![i] = add_assign(obs[i], obs[j])]
    /\ effective' = [effective EXCEPT ![i] = effective[i] + effective[j]]
    /\ met' = [met EXCEPT ![i] = met[i] + met[j]]
    /\ call' = [op |-> "add_assign", args |-> <<i, j>>]
    /\ ret' = NoRet
    /\ UNCHANGED <<operands, bayesian>>

\* obs[i] + obs[j], returned as a new value
Add(i, j) ==
    /\ call' = [op |-> "add", args |-> <<i, j>>]
    /\ ret' = add(obs[i], obs[j])
    /\ UNCHANGED <<obs, effective, met, operands, bayesian>>

NextRatio ==
    \/ \E i \in RatioIds, c \in BOOLEAN :
          obs[i].observations < MaxObservations /\ Observe(i, c)
    \/ \E i \in RatioIds, p \in BOOLEAN, q \in BOOLEAN :
          obs[i].observations < MaxObservations /\ ObserveWithPrior(i, p, q)
    \/ \E i \in RatioIds : Defined(i)
    \/ \E i \in RatioIds, j \in RatioIds :
          obs[i].observations + obs[j].observations <= MaxObservations /\ AddAssign(i, j)
    \/ \E i \in RatioIds, j \in RatioIds :
          obs[i].observations + obs[j].observations <= MaxObservations /\ Add(i, j)

SpecRatio == InitRatio /\ [][NextRatio]_vars

\* --------------------------------------------------- SpecCmp: operations
\* CountingRatio::ratio(m, o) for every m, o within the bound.
Ratios == {ratio(m, o) : m \in 0..MaxField, o \in 0..MaxField}

InitCmp ==
    /\ operands \in [Slots -> Ratios]
    /\ obs = <<>>
    /\ effective = <<>>
    /\ met = <<>>
    /\ bayesian = NoRet
    /\ call = [op |-> "ratio", args |-> <<>>]
    /\ ret = NoRet

\* operands[i].partial_cmp(&operands[j]) and operands[i] < operands[j],
\* for every ordered pair of operands.
Compare ==
    /\ call.op = "ratio"
    /\ call' = [op |-> "partial_cmp", args |-> <<>>]
    /\ ret' = [cmp |-> [p \in Slots \X Slots |-> partial_cmp(operands[p[1]], operands[p[2]])],
               lt  |-> [p \in Slots \X Slots |-> lt(operands[p[1]], operands[p[2]])]]
    /\ UNCHANGED <<obs, effective, met, operands, bayesian>>

NextCmp == Compare

SpecCmp == InitCmp /\ [][NextCmp]_vars

\* -------------------------------------------------------- BayesianCounter
\* BTreeMap::new(); a BTreeMap is a function whose domain is its key set.
EmptyMap == [x \in {} |-> 0]

\* BTreeMap::insert
insert(map, key, value) ==
    [x \in (DOMAIN map) \cup {key} |-> IF x = key THEN value ELSE map[x]]

\* histogram_macros::bump!(counter, example): add one to the entry, created at 0.
bump(counter, example) ==
    IF example \in DOMAIN counter
    THEN [counter EXCEPT ![example] = counter[example] + 1]
    ELSE insert(counter, example, 1)

RECURSIVE SumOver(_, _)
\* Iterator::sum over the values of a map restricted to the keys in S.
SumOver(map, S) ==
    IF S = {} THEN 0
    ELSE LET x == CHOOSE y \in S : TRUE
         IN  map[x] + SumOver(map, S \ {x})

values_sum(map) == SumOver(map, DOMAIN map)

RECURSIVE keys_of(_)
\* BTreeMap::keys(): the keys of S in ascending order.
keys_of(S) ==
    IF S = {} THEN <<>>
    ELSE LET least == CHOOSE x \in S : \A y \in S : x <= y
         IN  <<least>> \o keys_of(S \ {least})

BayesianCounter_new == [counts |-> EmptyMap, total |-> 0]

BayesianCounter_observe_forgets_total(self, example, label) ==
    IF label \in DOMAIN self.counts
    THEN [counts |-> [self.counts EXCEPT ![label] = bump(self.counts[label], example)],
          total  |-> self.total + 1]
    ELSE [counts |-> insert(self.counts, label, bump(EmptyMap, example)),
          total  |-> self.total]

BayesianCounter_observe_fresh_counter(self, example, label) ==
    [counts |-> insert(self.counts, label, bump(EmptyMap, example)),
     total  |-> self.total + 1]

BayesianCounter_observe(self, example, label) ==
    IF label \in DOMAIN self.counts
    THEN [counts |-> [self.counts EXCEPT ![label] = bump(self.counts[label], example)],
          total  |-> self.total + 1]
    ELSE [counts |-> insert(self.counts, label, bump(EmptyMap, example)),
          total  |-> self.total + 1]

count(self, example, label) ==
    IF label \in DOMAIN self.counts
    THEN IF example \in DOMAIN self.counts[label] THEN self.counts[label][example] ELSE 0
    ELSE 0

label_count(self, label) ==
    IF label \in DOMAIN self.counts THEN values_sum(self.counts[label]) ELSE 0

example_count(self, example) ==
    values_sum([label \in DOMAIN self.counts |-> count(self, example, label)])

p_label(self, label) == ratio(label_count(self, label), self.total)

p_example(self, example) == ratio(example_count(self, example), self.total)

p_example_given_label(self, example, label) ==
    ratio(count(self, example, label), label_count(self, label))

p_label_given_example_reduced(self, label, example) ==
    ratio(count(self, example, label), example_count(self, example))

p_label_given_example(self, label, example) ==
    div(mul(p_example_given_label(self, example, label), p_label(self, label)),
        p_example(self, example))

\* PartialOrd::lt of the tuple (CountingRatio, L): the first components are
\* compared with partial_cmp, the labels decide only when that is Equal.
tuple_lt(x, y) ==
    LET c == partial_cmp(x[1], y[1])
    IN  IF c # "Equal" THEN c = "Less" ELSE x[2] < y[2]

RECURSIVE insert_tail(_, _)
\* One step of the insertion sort: x moves left past every element it is
\* less than, until the first one it is not less than.
insert_tail(sorted, x) ==
    IF sorted = <<>> \/ ~tuple_lt(x, sorted[Len(sorted)])
    THEN Append(sorted, x)
    ELSE Append(insert_tail(SubSeq(sorted, 1, Len(sorted) - 1), x), sorted[Len(sorted)])

RECURSIVE sort_from(_, _, _)
sort_from(sorted, v, i) ==
    IF i > Len(v) THEN sorted ELSE sort_from(insert_tail(sorted, v[i]), v, i + 1)

\* slice::sort for a short slice (fewer than 20 elements): a stable
\* insertion sort driven by tuple_lt.
sort(v) == sort_from(<<>>, v, 1)

\* The key label_ranking_for pairs with a label.
ranking_key(self, example, label) ==
    mul_u64(p_example_given_label(self, example, label), label_count(self, label))

label_ranking_for(self, example) ==
    LET keys == keys_of(DOMAIN self.counts)
        result == [i \in 1..Len(keys) |-> <<ranking_key(self, example, keys[i]), keys[i]>>]
        sorted == sort(result)
    IN  [i \in 1..Len(sorted) |-> sorted[i][2]]

\* ------------------------------------------------- SpecBayes: operations
InitBayes ==
    /\ bayesian = BayesianCounter_new
    /\ obs = <<>>
    /\ effective = <<>>
    /\ met = <<>>
    /\ operands = <<>>
    /\ call = [op |-> "new", args |-> <<>>]
    /\ ret = NoRet

BObserve(example, label) ==
    /\ bayesian' = BayesianCounter_observe(bayesian, example, label)
    /\ call' = [op |-> "observe", args |-> <<example, label>>]
    /\ ret' = NoRet
    /\ UNCHANGED <<obs, effective, met, operands>>

PLabel(label) ==
    /\ call' = [op |-> "p_label", args |-> <<label>>]
    /\ ret' = p_label(bayesian, label)
    /\ UNCHANGED <<obs, effective, met, operands, bayesian>>

PExample(example) ==
    /\ call' = [op |-> "p_example", args |-> <<example>>]
    /\ ret' = p_example(bayesian, example)
    /\ UNCHANGED <<obs, effective, met, operands, bayesian>>

PExampleGivenLabel(example, label) ==
    /\ call' = [op |-> "p_example_given_label", args |-> <<example, label>>]
    /\ ret' = p_example_given_label(bayesian, example, label)
    /\ UNCHANGED <<obs, effective, met, operands, bayesian>>

PLabelGivenExample(label, example) ==
    /\ call' = [op |-> "p_label_given_example", args |-> <<label, example>>]
    /\ ret' = p_label_given_example(bayesian, label, example)
    /\ UNCHANGED <<obs, effective, met, operands, bayesian>>

LabelRankingFor(example) ==
    /\ call' = [op |-> "label_ranking_for", args |-> <<example>>]
    /\ ret' = label_ranking_for(bayesian, example)
    /\ UNCHANGED <<obs, effective, met, operands, bayesian>>

NextBayes ==
    \/ \E e \in Examples, l \in Labels : bayesian.total < MaxTotal /\ BObserve(e, l)
    \/ \E l \in Labels : PLabel(l)
    \/ \E e \in Examples : PExample(e)
    \/ \E e \in Examples, l \in Labels : PExampleGivenLabel(e, l)
    \/ \E e \in Examples, l \in Labels : PLabelGivenExample(l, e)

SpecBayes == InitBayes /\ [][NextBayes]_vars

NextRank ==
    \/ \E e \in Examples, l \in RankLabels : bayesian.total < MaxRankTotal /\ BObserve(e, l)
    \/ \E e \in Examples : LabelRankingFor(e)

SpecRank == InitBayes /\ [][NextRank]_vars

\* ================================================================ claims

\* C1: after any sequence of BayesianCounter::observe calls from new(), total
\* equals the sum of all leaf counts of the label -> example -> count mapping,
\* and equally the sum of label_count(l) over the observed labels l.
C1_TotalIsSumOfLeaves ==
    /\ bayesian.total =
         SumOver([p \in Labels \X Examples |-> count(bayesian, p[2], p[1])],
                 Labels \X Examples)
    /\ bayesian.total =
         values_sum([l \in DOMAIN bayesian.counts |-> label_count(bayesian, l)])

C1_Witness ==
    /\ call.op = "observe"
    /\ bayesian.total >= 3
    /\ Cardinality(DOMAIN bayesian.counts) >= 2

\* C2: every observe(example, label) raises count(example, label) by exactly
\* one and total by exactly one, and leaves the count of every other
\* (example, label) pair unchanged, whether or not the label or the example
\* was present before.
C2_ObserveBumpsOneCell ==
    [][call'.op = "observe" =>
         LET example == call'.args[1]
             label == call'.args[2]
         IN  /\ count(bayesian', example, label) = count(bayesian, example, label) + 1
             /\ bayesian'.total = bayesian.total + 1
             /\ \A e \in Examples, l \in Labels :
                    <<e, l>> # <<example, label>> =>
                        count(bayesian', e, l) = count(bayesian, e, l)]_vars

C2_Witness ==
    /\ call.op = "observe"
    /\ count(bayesian, call.args[1], call.args[2]) >= 2
    /\ Cardinality(DOMAIN bayesian.counts) >= 2
    /\ \E e \in Examples : e # call.args[1] /\ count(bayesian, e, call.args[2]) >= 1

\* C3: the sequence label_ranking_for(example) returns is ascending under
\* partial_cmp applied to the keys p_example_given_label(example, label) *
\* label_count(label): no label stands before a label whose key compares
\* strictly Less than its own.
C3_RankingAscending ==
    call.op = "label_ranking_for" =>
        \A i \in 1..Len(ret), j \in 1..Len(ret) :
            i < j =>
                partial_cmp(ranking_key(bayesian, call.args[1], ret[j]),
                            ranking_key(bayesian, call.args[1], ret[i])) # "Less"

Reverse(ordering) ==
    IF ordering = "Less" THEN "Greater"
    ELSE IF ordering = "Greater" THEN "Less"
    ELSE "Equal"

\* C4: partial_cmp is a total order on ratios: cmp(a, b) is the reverse of
\* cmp(b, a), a <= b and b <= c imply a <= c, and order-equality is
\* transitive.
C4_TotalOrder ==
    call.op = "partial_cmp" =>
        \A i \in Slots, j \in Slots, k \in Slots :
            /\ ret.cmp[<<i, j>>] = Reverse(ret.cmp[<<j, i>>])
            /\ (ret.cmp[<<i, j>>] # "Greater" /\ ret.cmp[<<j, k>>] # "Greater")
                   => ret.cmp[<<i, k>>] # "Greater"
            /\ (ret.cmp[<<i, j>>] = "Equal" /\ ret.cmp[<<j, k>>] = "Equal")
                   => ret.cmp[<<i, k>>] = "Equal"

\* C5: p_label_given_example(label, example) returns exactly the unreduced
\* ratio with matches = count * label_count * total and observations =
\* label_count * total * example_count.
C5_BayesUnsimplified ==
    call.op = "p_label_given_example" =>
        LET label == call.args[1]
            example == call.args[2]
        IN  /\ ret.matches = count(bayesian, example, label)
                               * label_count(bayesian, label) * bayesian.total
            /\ ret.observations = label_count(bayesian, label) * bayesian.total
                               * example_count(bayesian, example)

C5_Witness ==
    /\ call.op = "p_label_given_example"
    /\ ret.matches > 0
    /\ example_count(bayesian, call.args[2]) # label_count(bayesian, call.args[1])
    /\ example_count(bayesian, call.args[2]) > count(bayesian, call.args[2], call.args[1])

\* C6: for ratios a, b with nonzero matches and different observations,
\* a < b exactly when a.matches * b.observations < b.matches * a.observations.
C6_CrossMultiplication ==
    call.op = "partial_cmp" =>
        \A i \in Slots, j \in Slots :
            LET a == operands[i]
                b == operands[j]
            IN  (a.matches > 0 /\ b.matches > 0 /\ a.observations # b.observations)
                    => (ret.lt[<<i, j>>]
                          <=> a.matches * b.observations < b.matches * a.observations)

C6_Witness ==
    /\ call.op = "partial_cmp"
    /\ operands[1].matches > 0
    /\ operands[2].matches > 0
    /\ operands[1].observations # operands[2].observations
    /\ operands[1].matches > operands[2].matches
    /\ ret.lt[<<1, 2>>]

\* C7: observe_with_prior(false, p) changes neither matches nor observations
\* of any ratio; observe_with_prior(true, p) leaves the ratio exactly as
\* observe(p) would: observations + 1, and matches + 1 iff p.
C7_PriorGatesObservation ==
    [][call'.op = "observe_with_prior" =>
         LET i == call'.args[1]
             prior == call'.args[2]
             posterior == call'.args[3]
         IN  /\ ~prior => obs' = obs
             /\ prior =>
                  /\ obs'[i] = observe(obs[i], posterior)
                  /\ obs'[i].observations = obs[i].observations + 1
                  /\ obs'[i].matches = obs[i].matches + (IF posterior THEN 1 ELSE 0)
                  /\ \A j \in RatioIds : j # i => obs'[j] = obs[j]]_vars

C7_Witness ==
    /\ call.op = "observe_with_prior"
    /\ ~call.args[2]
    /\ call.args[3]
    /\ obs[call.args[1]].observations > 0

\* C8 as stated: every probability query that names a label or an example
\* with zero recorded count returns a ratio whose observations is 0.
C8_ZeroMassZeroDenominator ==
    /\ call.op = "p_label" =>
         (label_count(bayesian, call.args[1]) = 0 => ret.observations = 0)
    /\ call.op = "p_example" =>
         (example_count(bayesian, call.args[1]) = 0 => ret.observations = 0)
    /\ call.op = "p_example_given_label" =>
         ((label_count(bayesian, call.args[2]) = 0
             \/ example_count(bayesian, call.args[1]) = 0) => ret.observations = 0)
    /\ call.op = "p_label_given_example" =>
         ((label_count(bayesian, call.args[1]) = 0
             \/ example_count(bayesian, call.args[2]) = 0) => ret.observations = 0)

\* C8 amended: p_label_given_example naming a zero-count label or example and
\* p_example_given_label naming a zero-count label return a ratio whose
\* observations is 0; p_label of a zero-count label and p_example of a
\* zero-count example return ratio(0, total), and p_example_given_label of an
\* example never seen under the label returns ratio(0, label_count(label)).
C8_ZeroMassAmended ==
    /\ call.op = "p_label" =>
         (label_count(bayesian, call.args[1]) = 0 => ret = ratio(0, bayesian.total))
    /\ call.op = "p_example" =>
         (example_count(bayesian, call.args[1]) = 0 => ret = ratio(0, bayesian.total))
    /\ call.op = "p_example_given_label" =>
         /\ label_count(bayesian, call.args[2]) = 0 => ret.observations = 0
         /\ count(bayesian, call.args[1], call.args[2]) = 0 =>
                ret = ratio(0, label_count(bayesian, call.args[2]))
    /\ call.op = "p_label_given_example" =>
         ((label_count(bayesian, call.args[1]) = 0
             \/ example_count(bayesian, call.args[2]) = 0) => ret.observations = 0)

C8_Witness ==
    /\ call.op = "p_label_given_example"
    /\ label_count(bayesian, call.args[1]) = 0
    /\ example_count(bayesian, call.args[2]) > 0
    /\ ret.observations = 0

C10_CountsAreExact ==
    /\ \A i \in RatioIds :
          /\ obs[i].matches <= obs[i].observations
          /\ obs[i].matches = met[i]
          /\ obs[i].observations = effective[i]
          /\ defined(obs[i]) <=> effective[i] > 0
    /\ call.op = "defined" => (ret <=> effective[call.args[1]] > 0)
    /\ call.op = "add" =>
          /\ ret.matches <= ret.observations
          /\ ret.matches = met[call.args[1]] + met[call.args[2]]
          /\ ret.observations = effective[call.args[1]] + effective[call.args[2]]

C10_Witness ==
    /\ call.op = "add_assign"
    /\ call.args[1] # call.args[2]
    /\ obs[call.args[2]].observations > obs[call.args[2]].matches
    /\ obs[call.args[1]].matches > 0
    /\ obs[call.args[1]].observations > obs[call.args[1]].matches

====
